---- MODULE Spec2Model ----
(***************************************************************************)
(* pytest-testrail: PyTestRailPlugin (src/pytest_testrail/plugin.py).      *)
(*                                                                         *)
(* One pytest session of the plugin: the collection hook that resolves the *)
(* run/plan to report to, the report hook that records results, and the    *)
(* session-finish hook that publishes them.  publish_results is modelled   *)
(* thread by thread: the producer (put / join), the daemon workers of each *)
(* call (get / publish_result / task_done) and the bounded queue between   *)
(* them.  The TestRail client is the environment: each request draws its   *)
(* answer from the answers the service can give.                           *)
(*                                                                         *)
(* Text is a sequence of characters (one-character strings); the fixed     *)
(* texts of the plugin are single tokens of such a sequence.  A duration   *)
(* is a number of tenths of a second.  A key absent from a Python dict is  *)
(* the empty sequence Absent in the record that models the dict.           *)
(***************************************************************************)
EXTENDS Integers, Sequences, FiniteSets

(***************************************************************************)
(* Bounds of the model                                                     *)
(***************************************************************************)
\* max_concurrent_requests (60 in the source, plugin.py:43) scaled down:
\* the number of worker threads of one publish_results call.
max_concurrent_requests == 2

\* max_comment_size (4000 in the source, plugin.py:42) scaled down.
max_comment_size == 2

\* The number of entries the result buffer holds at most in a modelled session.
MaxResults == 1

\* The number of entries of the largest buffer the publishing engine is run on
\* alone (more than the queue's capacity, 2 * max_concurrent_requests).
MaxBatch == 5

\* The most entries the tests of a plan session record.
MaxRecorded == 2

\* The longest duration a formatted result carries, in tenths of a second.
MaxTenths == 36

\* The most characters of a comment text a formatted result carries (more
\* than max_comment_size, so that texts are truncated).
MaxText == 3

(***************************************************************************)
(* The world around the plugin                                             *)
(***************************************************************************)
\* Case ids tests are marked with.
Cases == {100, 200}

\* The run id and the plan id a session may be configured with (0: none).
RunIds == {0, 50}
PlanIds == {0, 9}

\* The runs of plan 9, in the order of its entries.
PlanRuns == <<10, 11>>

\* pytest_sessionfinish calls publish_results at most once per run of the plan.
MaxCalls == Len(PlanRuns)

\* The id the service gives a run created by add_run.
NewRunId == 77

\* test_status, plugin.py:38
test_status == [passed |-> 1, blocked |-> 2, untested |-> 3, retest |-> 4, failed |-> 5]

Absent == <<>>

\* What a finished test reports to pytest_runtest_makereport:
\* outcome, longrepr (None is Absent) and duration in tenths of a second.
Reports ==
    { [outcome |-> "passed",  longrepr |-> Absent,              duration |-> 3],
      [outcome |-> "failed",  longrepr |-> <<"a", "\n", "b">>,  duration |-> 25],
      [outcome |-> "skipped", longrepr |-> <<"s">>,             duration |-> 0] }

\* The marker ids of a test, as pytestrail.case receives them.
Markers ==
    { <<[prefix |-> "C", num |-> 100]>>,
      <<[prefix |-> "C", num |-> 200]>>,
      <<[prefix |-> "C", num |-> 200], [prefix |-> "C", num |-> 100]>> }

(***************************************************************************)
(* Pure helpers                                                            *)
(***************************************************************************)
\* clean_test_ids: the trailing digits of every marker id, as an integer.
clean_test_ids(test_ids) == [i \in DOMAIN test_ids |-> test_ids[i].num]

\* The status table of pytest_runtest_makereport; dict.get gives None (0
\* stands for None: no status of the service is 0) for any other outcome.
OutcomeStatus(outcome) ==
    CASE outcome = "passed"  -> 1
      [] outcome = "failed"  -> 5
      [] outcome = "skipped" -> 2
      [] OTHER               -> 0

\* str(n) for n >= 0, as a sequence of digit characters.
Digit(d) == <<"0", "1", "2", "3", "4", "5", "6", "7", "8", "9">>[d + 1]

RECURSIVE IntStr(_)
IntStr(n) == IF n < 10 THEN <<Digit(n)>> ELSE IntStr(n \div 10) \o <<Digit(n % 10)>>

\* int(round(d)) of Python 3 for d = tenths/10: to nearest, ties to even.
RoundTenths(tenths) ==
    LET q == tenths \div 10
        r == tenths % 10
    IN  IF r < 5 THEN q
        ELSE IF r > 5 THEN q + 1
        ELSE IF q % 2 = 0 THEN q ELSE q + 1

LastChars_Head(s, n) == IF Len(s) <= n THEN s ELSE SubSeq(s, 1, n)

\* s[-n:] of Python for n > 0.
LastChars(s, n) == IF Len(s) <= n THEN s ELSE SubSeq(s, Len(s) - n + 1, Len(s))

\* s.replace('\n', '\n    ')
RECURSIVE IndentNewlines(_)
IndentNewlines(s) ==
    IF s = <<>> THEN <<>>
    ELSE IF Head(s) = "\n" THEN <<"\n", "    ">> \o IndentNewlines(Tail(s))
    ELSE <<Head(s)>> \o IndentNewlines(Tail(s))

\* __formatted_comment
formatted_comment(comment) ==
    <<"# Pytest result: #", "\n">>
    \o (IF Len(comment) > max_comment_size
        THEN <<"Log truncated", "\n", "...", "\n">> ELSE <<>>)
    \o <<"    ">> \o IndentNewlines(LastChars(comment, max_comment_size))

Elapsed_Rounded(duration) ==
    IF duration = 0 THEN Absent
    ELSE IntStr(RoundTenths(duration)) \o <<"s">>

\* The elapsed field of __process_result.
Elapsed(duration) ==
    IF duration = 0 THEN Absent
    ELSE IntStr(IF duration < 10 THEN 1 ELSE RoundTenths(duration)) \o <<"s">>

\* __process_result
process_result(result, version) ==
    [ status_id |-> result.status_id,
      case_id   |-> result.case_id,
      version   |-> IF version # Absent THEN version ELSE Absent,
      comment   |-> IF result.comment # Absent
                    THEN formatted_comment(result.comment) ELSE Absent,
      elapsed   |-> Elapsed(result.duration) ]

\* The body of a request that is not add_result_for_case.
NoEntry ==
    [status_id |-> 0, case_id |-> 0, version |-> Absent, comment |-> Absent,
     elapsed |-> Absent]

\* One request to the service, as the session's trace keeps it: the API
\* method, the id in its path, its body, the answer ("ok", "error" for an
\* answer with an error field, "fail" for a transport failure), the plugin
\* method that sent it and the publish_results call it belongs to (0: none).
Request(op, id, entry, resp, by, call) ==
    [op |-> op, id |-> id, entry |-> entry, resp |-> resp, by |-> by, call |-> call]

\* The answers of the service to get_run and get_plan: the run or plan is
\* open (is_completed is False), it is completed, the answer has an error
\* field, or the transport raises.
OpenAnswers == {"open", "closed", "error", "fail"}

\* The answers of the service to a request that changes something.
PostAnswers == {"ok", "error", "fail"}

\* The lists get_tests can answer with: every case of the run with its
\* current status (blocked or untested).
TestsAnswers ==
    { << [case_id |-> 100, status_id |-> a], [case_id |-> 200, status_id |-> b] >> :
        a \in {test_status.blocked, test_status.untested},
        b \in {test_status.blocked, test_status.untested} }

\* The run rows get_plan can answer with for the plan's entries.
PlanAnswers ==
    { << [id |-> PlanRuns[1], is_completed |-> a], [id |-> PlanRuns[2], is_completed |-> b] >> :
        a \in BOOLEAN, b \in BOOLEAN }

(***************************************************************************)
(* State                                                                   *)
(***************************************************************************)
VARIABLES
    cfg,          \* the constructor's arguments (never changed)
    testrun_id,   \* self.testrun_id
    testplan_id,  \* self.testplan_id
    results,      \* self.results, the result buffer
    phase,        \* where the session is: "constructed", "running",
                  \* "finishing", "finished", "raised" (a hook raised)
    selected,     \* what the collection hook resolved: "pending", "plan",
                  \* "run", "created" or "unresolved"
    http,         \* every request sent so far, in order, with its answer
    testruns,     \* pytest_sessionfinish: the runs still to publish to
    open_runs,    \* what get_available_testruns returned to pytest_sessionfinish
    plan_rows,    \* the run rows of the answer get_available_testruns received
    pub,          \* the frame of the current publish_results call: where the
                  \* producer is, the position of the generator, the answer
                  \* of get_tests and blocked_tests_list
    call_run,     \* per publish_results call: its testrun_id argument
    queue,        \* per call: the content of its Queue
    unfinished,   \* per call: its Queue's unfinished_tasks
    worker,       \* per call: its do_work threads
    dispatched    \* per call: the results put on its queue, in order

vars ==
    << cfg, testrun_id, testplan_id, results, phase, selected, http, testruns,
       open_runs, plan_rows, pub, call_run, queue, unfinished, worker, dispatched >>

sessionVars == << testruns, open_runs, plan_rows >>
engineVars == << pub, call_run, queue, unfinished, worker, dispatched >>

Workers == 1 .. max_concurrent_requests
ncalls == Len(call_run)

IdleFrame == [pc |-> "idle", next |-> 1, tests |-> <<>>, blocked |-> {}]

\* __init__
Init ==
    /\ cfg \in [ run_id : RunIds, plan_id : PlanIds, publish_blocked : BOOLEAN,
                  skip_missing : BOOLEAN, close_on_complete : BOOLEAN,
                  version : {Absent} ]
    /\ testrun_id = cfg.run_id
    /\ testplan_id = cfg.plan_id
    /\ results = <<>>
    /\ phase = "constructed"
    /\ selected = "pending"
    /\ http = <<>>
    /\ testruns = <<>>
    /\ open_runs = <<>>
    /\ plan_rows = <<>>
    /\ pub = IdleFrame
    /\ call_run = <<>>
    /\ queue = <<>>
    /\ unfinished = <<>>
    /\ worker = <<>>
    /\ dispatched = <<>>

(***************************************************************************)
(* pytest_collection_modifyitems                                           *)
(***************************************************************************)
Collecting == "pytest_collection_modifyitems"

\* The get_plan request of is_testplan_available, sent only when a plan id
\* is configured ("self.testplan_id and ..." short-circuits).
PlanProbe(resp) ==
    IF testplan_id # 0
    THEN << Request("get_plan", testplan_id, NoEntry, resp, Collecting, 0) >>
    ELSE <<>>

\* The get_run request of is_testrun_available, likewise.
RunProbe(resp) ==
    IF testrun_id # 0
    THEN << Request("get_run", testrun_id, NoEntry, resp, Collecting, 0) >>
    ELSE <<>>

\* An availability check that looks at the error field only.
IsAvailable_NoError(resp) == resp \notin {"error", "fail"}

\* An availability check that takes an answer with an error field for an
\* open run or plan.
IsAvailable_ErrorOpen(resp) == resp \in {"open", "error"}

\* is_testplan_available / is_testrun_available: the answer has no error
\* field and its is_completed is False.
IsAvailable(resp) == resp = "open"

\* First branch: the configured plan is open.
CollectPlan ==
    /\ phase = "constructed"
    /\ testplan_id # 0
    /\ \E planResp \in OpenAnswers :
          /\ IsAvailable(planResp)
          /\ http' = http \o PlanProbe(planResp)
    /\ testrun_id' = 0
    /\ selected' = "plan"
    /\ phase' = "running"
    /\ UNCHANGED << cfg, testplan_id, results, sessionVars, engineVars >>

\* Second branch: the plan is not configured or not open, the configured run
\* is open.  With skip_missing the run's tests are fetched to mark the
\* missing tests as skipped; get_tests raises when the answer is an error.
CollectRun ==
    /\ phase = "constructed"
    /\ testrun_id # 0
    /\ \E planResp \in OpenAnswers \ {"fail"}, runResp \in OpenAnswers,
          testsResp \in PostAnswers :
          /\ ~ (testplan_id # 0 /\ IsAvailable(planResp))
          /\ IsAvailable(runResp)
          /\ http' = http \o PlanProbe(planResp) \o RunProbe(runResp)
                      \o (IF cfg.skip_missing
                          THEN << Request("get_tests", testrun_id, NoEntry, testsResp,
                                          Collecting, 0) >>
                          ELSE <<>>)
          /\ phase' = IF cfg.skip_missing /\ testsResp # "ok" THEN "raised" ELSE "running"
    /\ testplan_id' = 0
    /\ selected' = "run"
    /\ UNCHANGED << cfg, testrun_id, results, sessionVars, engineVars >>

\* create_test_run: the id of the answer becomes self.testrun_id; an answer
\* with an error field is printed and changes nothing.
create_test_run(resp) ==
    /\ testrun_id' = IF resp = "ok" THEN NewRunId ELSE testrun_id
    /\ selected' = IF resp = "ok" THEN "created"
                   ELSE IF resp = "error" THEN "unresolved" ELSE selected
    /\ phase' = IF resp = "fail" THEN "raised" ELSE "running"

\* Third branch: neither is open, a new run is created.
CollectCreate ==
    /\ phase = "constructed"
    /\ \E planResp \in OpenAnswers \ {"fail"}, runResp \in OpenAnswers \ {"fail"},
          addResp \in PostAnswers :
          /\ ~ (testplan_id # 0 /\ IsAvailable(planResp))
          /\ ~ (testrun_id # 0 /\ IsAvailable(runResp))
          /\ http' = http \o PlanProbe(planResp) \o RunProbe(runResp)
                      \o << Request("add_run", 0, NoEntry, addResp, "create_test_run", 0) >>
          /\ create_test_run(addResp)
    /\ UNCHANGED << cfg, testplan_id, results, sessionVars, engineVars >>

\* The transport raises in is_testplan_available or is_testrun_available:
\* the hook ends with that exception, nothing is assigned.
CollectFail ==
    /\ phase = "constructed"
    /\ \/ /\ testplan_id # 0
          /\ http' = http \o PlanProbe("fail")
       \/ /\ testrun_id # 0
          /\ \E planResp \in OpenAnswers \ {"fail"} :
                /\ ~ (testplan_id # 0 /\ IsAvailable(planResp))
                /\ http' = http \o PlanProbe(planResp) \o RunProbe("fail")
    /\ phase' = "raised"
    /\ UNCHANGED << cfg, testrun_id, testplan_id, results, selected, sessionVars,
                    engineVars >>

(***************************************************************************)
(* pytest_runtest_makereport and add_result                                *)
(***************************************************************************)
add_result_Replace(buffer, test_ids, status, comment, duration) ==
    [ i \in 1 .. Len(test_ids) |->
        [ case_id |-> test_ids[i], status_id |-> status,
          comment |-> comment, duration |-> duration ] ]

\* add_result: one entry per test id, appended in the order of the ids.
add_result(buffer, test_ids, status, comment, duration) ==
    buffer \o [ i \in 1 .. Len(test_ids) |->
                  [ case_id |-> test_ids[i], status_id |-> status,
                    comment |-> comment, duration |-> duration ] ]

\* The report of the call phase of a test that carries the marker ids: one
\* add_result call with the cleaned ids, the status the table gives for the
\* outcome, the longrepr and the duration.  limit bounds the buffer.
pytest_runtest_makereport(ids, rep, limit) ==
    /\ phase = "running"
    /\ Len(results) + Len(ids) <= limit
    /\ results' = add_result(results, clean_test_ids(ids),
                              OutcomeStatus(rep.outcome), rep.longrepr,
                              rep.duration)
    /\ UNCHANGED << cfg, testrun_id, testplan_id, phase, selected, http, sessionVars,
                    engineVars >>

\* Any other report leaves the plugin as it is.
MakeReport ==
    \E ids \in Markers, rep \in Reports :
        pytest_runtest_makereport(ids, rep, MaxResults)

(***************************************************************************)
(* pytest_sessionfinish                                                    *)
(***************************************************************************)
\* get_available_testruns: the ids of the run rows that are not completed,
\* in the order of the answer; no run when the answer has an error field.
get_available_testruns(resp, rows) ==
    IF resp = "error" THEN <<>>
    ELSE LET open == SelectSeq(rows, LAMBDA run : ~ run.is_completed)
         IN  [ i \in 1 .. Len(open) |-> open[i].id ]

\* The service has answered that the plan is completed.  A completed plan
\* stays completed, and so do its runs.
PlanSeenCompleted ==
    \E i \in DOMAIN http : http[i].op = "get_plan" /\ http[i].resp = "closed"

\* No publish_results call is running.
NotPublishing == pub.pc \in {"idle", "returned"}

\* The hook starts: nothing at all is done with an empty buffer; else the
\* runs to publish to are self.testrun_id if it is set, else the open runs
\* of self.testplan_id if it is set, else none.
SessionFinish ==
    /\ phase = "running"
    /\ IF results = <<>>
       THEN /\ phase' = "finished"
            /\ UNCHANGED << http, testruns, open_runs, plan_rows >>
       ELSE IF testrun_id # 0
       THEN /\ testruns' = << testrun_id >>
            /\ phase' = "finishing"
            /\ UNCHANGED << http, open_runs, plan_rows >>
       ELSE IF testplan_id # 0
       THEN \E resp \in PostAnswers, rows \in PlanAnswers :
              /\ PlanSeenCompleted => \A i \in DOMAIN rows : rows[i].is_completed
              /\ http' = Append(http, Request("get_plan", testplan_id, NoEntry, resp,
                                              "get_available_testruns", 0))
              /\ IF resp = "fail"
                 THEN /\ phase' = "raised"
                      /\ UNCHANGED << testruns, open_runs, plan_rows >>
                 ELSE /\ phase' = "finishing"
                      /\ testruns' = get_available_testruns(resp, rows)
                      /\ open_runs' = get_available_testruns(resp, rows)
                      /\ plan_rows' = IF resp = "error" THEN <<>> ELSE rows
       ELSE /\ testruns' = <<>>
            /\ phase' = "finishing"
            /\ UNCHANGED << http, open_runs, plan_rows >>
    /\ UNCHANGED << cfg, testrun_id, testplan_id, results, selected, engineVars >>

\* After the last publish_results call: close_test_run or close_test_plan
\* when close_on_complete is set, and the hook ends.
SessionClose ==
    /\ phase = "finishing"
    /\ NotPublishing
    /\ testruns = <<>>
    /\ IF cfg.close_on_complete /\ testrun_id # 0
       THEN \E resp \in PostAnswers :
              /\ http' = Append(http, Request("close_run", testrun_id, NoEntry, resp,
                                              "close_test_run", 0))
              /\ phase' = IF resp = "fail" THEN "raised" ELSE "finished"
       ELSE IF cfg.close_on_complete /\ testplan_id # 0
       THEN \E resp \in PostAnswers :
              /\ http' = Append(http, Request("close_plan", testplan_id, NoEntry, resp,
                                              "close_test_plan", 0))
              /\ phase' = IF resp = "fail" THEN "raised" ELSE "finished"
       ELSE /\ phase' = "finished"
            /\ http' = http
    /\ UNCHANGED << cfg, testrun_id, testplan_id, results, selected, sessionVars,
                    engineVars >>

(***************************************************************************)
(* publish_results: the producer                                           *)
(***************************************************************************)
\* A blocked_tests_list that compares with the wrong status.
blocked_tests_list_Untested(tests) ==
    { tests[i].case_id :
        i \in { j \in DOMAIN tests : tests[j].status_id = test_status.untested } }

\* blocked_tests_list: the case ids of the tests whose status is blocked.
blocked_tests_list(tests) ==
    { tests[i].case_id :
        i \in { j \in DOMAIN tests : tests[j].status_id = test_status.blocked } }

\* The condition of the generator over self.results.
Retained(r, blocked) == r.case_id \notin blocked

\* A generator that yields one result per case id only.
Pending_Dedup(from, blocked) ==
    { i \in from .. Len(results) :
        /\ Retained(results[i], blocked)
        /\ \A j \in 1 .. i - 1 : results[j].case_id # results[i].case_id }

\* The positions of self.results the generator has still to yield.
Pending(from, blocked) ==
    { i \in from .. Len(results) : Retained(results[i], blocked) }

Min(S) == CHOOSE x \in S : \A y \in S : x <= y

\* Queue(self.max_concurrent_requests * 2)
QueueCapacity == max_concurrent_requests * 2

\* The threads started by one call, each waiting in queue.get().
NewWorkers == [ w \in Workers |-> [pc |-> "get", item |-> NoEntry] ]

\* The call starts: with publish_blocked off the tests of the run are
\* fetched and their blocked cases excluded; the queue is created and the
\* threads are started.
PublishBegin ==
    /\ phase = "finishing"
    /\ NotPublishing
    /\ testruns # <<>>
    /\ \E tests \in TestsAnswers :
          /\ http' = IF cfg.publish_blocked THEN http
                     ELSE Append(http, Request("get_tests", Head(testruns), NoEntry, "ok",
                                               "publish_results", ncalls + 1))
          /\ pub' = [ pc |-> "put", next |-> 1,
                      tests |-> IF cfg.publish_blocked THEN <<>> ELSE tests,
                      blocked |-> IF cfg.publish_blocked THEN {}
                                  ELSE blocked_tests_list(tests) ]
    /\ testruns' = Tail(testruns)
    /\ call_run' = Append(call_run, Head(testruns))
    /\ queue' = Append(queue, <<>>)
    /\ unfinished' = Append(unfinished, 0)
    /\ worker' = Append(worker, NewWorkers)
    /\ dispatched' = Append(dispatched, <<>>)
    /\ UNCHANGED << cfg, testrun_id, testplan_id, results, phase, selected, open_runs,
                    plan_rows >>

\* get_tests raises TestsNotFoundException on an answer with an error field
\* (or the transport raises): publish_results and the hook end with it.
PublishRaise ==
    /\ phase = "finishing"
    /\ NotPublishing
    /\ testruns # <<>>
    /\ ~ cfg.publish_blocked
    /\ \E resp \in {"error", "fail"} :
          http' = Append(http, Request("get_tests", Head(testruns), NoEntry, resp,
                                       "publish_results", ncalls + 1))
    /\ phase' = "raised"
    /\ UNCHANGED << cfg, testrun_id, testplan_id, results, selected, sessionVars,
                    engineVars >>

\* A producer that enqueues without blocking and joins only after the loop.
Put_NoWait ==
    /\ phase = "finishing"
    /\ pub.pc = "put"
    /\ Pending(pub.next, pub.blocked) # {}
    /\ LET i == Min(Pending(pub.next, pub.blocked))
           r == process_result(results[i], cfg.version)
       IN  /\ queue' = [queue EXCEPT ![ncalls] = Append(@, r)]
           /\ dispatched' = [dispatched EXCEPT ![ncalls] = Append(@, r)]
           /\ pub' = [pub EXCEPT !.next = i + 1]
    /\ unfinished' = [unfinished EXCEPT ![ncalls] = @ + 1]
    /\ UNCHANGED << cfg, testrun_id, testplan_id, results, phase, selected, http,
                    sessionVars, call_run, worker >>

\* queue.put(r): the next result of the generator goes on the queue, which
\* counts it as unfinished; put blocks while the queue is full.
Put ==
    /\ phase = "finishing"
    /\ pub.pc = "put"
    /\ Pending(pub.next, pub.blocked) # {}
    /\ Len(queue[ncalls]) < QueueCapacity
    /\ LET i == Min(Pending(pub.next, pub.blocked))
           r == process_result(results[i], cfg.version)
       IN  /\ queue' = [queue EXCEPT ![ncalls] = Append(@, r)]
           /\ dispatched' = [dispatched EXCEPT ![ncalls] = Append(@, r)]
           /\ pub' = [pub EXCEPT !.pc = "join", !.next = i + 1]
    /\ unfinished' = [unfinished EXCEPT ![ncalls] = @ + 1]
    /\ UNCHANGED << cfg, testrun_id, testplan_id, results, phase, selected, http,
                    sessionVars, call_run, worker >>

\* A join that does not wait for the unfinished tasks.
JoinReady_NoWait(c) == TRUE

\* A join that waits for the queue to be empty, not for task_done.
JoinReady_QueueEmpty(c) == queue[c] = <<>>

\* queue.join() returns when no task is unfinished.
JoinReady(c) == unfinished[c] = 0

Join ==
    /\ phase = "finishing"
    /\ pub.pc = "join"
    /\ JoinReady(ncalls)
    /\ pub' = [pub EXCEPT !.pc = "put"]
    /\ UNCHANGED << cfg, testrun_id, testplan_id, results, phase, selected, http,
                    sessionVars, call_run, queue, unfinished, worker, dispatched >>

\* The generator is exhausted: publish_results returns.
PublishReturn ==
    /\ phase = "finishing"
    /\ pub.pc = "put"
    /\ Pending(pub.next, pub.blocked) = {}
    /\ pub' = [pub EXCEPT !.pc = "returned"]
    /\ UNCHANGED << cfg, testrun_id, testplan_id, results, phase, selected, http,
                    sessionVars, call_run, queue, unfinished, worker, dispatched >>

(***************************************************************************)
(* publish_results: the do_work threads                                    *)
(***************************************************************************)
\* One queue that the threads of every call read.
QueueOf_Shared(c) == ncalls

\* The queue do_work refers to: the local variable of the publish_results
\* call that started the thread.
QueueOf(c) == c

\* r = queue.get()
Get(c, w) ==
    /\ worker[c][w].pc = "get"
    /\ queue[QueueOf(c)] # <<>>
    /\ worker' = [worker EXCEPT ![c][w] = [pc |-> "send", item |-> Head(queue[QueueOf(c)])]]
    /\ queue' = [queue EXCEPT ![QueueOf(c)] = Tail(@)]
    /\ UNCHANGED << cfg, testrun_id, testplan_id, results, phase, selected, http,
                    sessionVars, pub, call_run, unfinished, dispatched >>

\* publish_result raising on an answer with an error field.
AfterSend_ErrorRaises(resp) == IF resp # "ok" THEN "dead" ELSE "ack"

\* Where do_work goes on after send_post: publish_result prints an error
\* answer and returns; an exception of the transport is caught nowhere and
\* ends the thread.
AfterSend(resp) == IF resp = "fail" THEN "dead" ELSE "ack"

\* self.publish_result(r, testrun_id)
PublishResult(c, w) ==
    /\ worker[c][w].pc = "send"
    /\ \E resp \in PostAnswers :
          /\ http' = Append(http, Request("add_result_for_case", call_run[c],
                                          worker[c][w].item, resp, "publish_result", c))
          /\ worker' = [worker EXCEPT ![c][w].pc = AfterSend(resp)]
    /\ UNCHANGED << cfg, testrun_id, testplan_id, results, phase, selected, sessionVars,
                    pub, call_run, queue, unfinished, dispatched >>

\* A task_done that is lost.
task_done_Lost(n) == n

\* Queue.task_done: one task fewer is unfinished.
task_done(n) == n - 1

\* queue.task_done()
TaskDone(c, w) ==
    /\ worker[c][w].pc = "ack"
    /\ unfinished' = [unfinished EXCEPT ![QueueOf(c)] = task_done(@)]
    /\ worker' = [worker EXCEPT ![c][w] = [pc |-> "get", item |-> NoEntry]]
    /\ UNCHANGED << cfg, testrun_id, testplan_id, results, phase, selected, http,
                    sessionVars, pub, call_run, queue, dispatched >>

(***************************************************************************)
(* Specifications                                                          *)
(***************************************************************************)
Next ==
    \/ CollectPlan
    \/ CollectRun
    \/ CollectCreate
    \/ CollectFail
    \/ MakeReport
    \/ SessionFinish
    \/ SessionClose
    \/ PublishBegin
    \/ PublishRaise
    \/ Put
    \/ Join
    \/ PublishReturn
    \/ \E c \in 1 .. ncalls, w \in Workers : Get(c, w)
    \/ \E c \in 1 .. ncalls, w \in Workers : PublishResult(c, w)
    \/ \E c \in 1 .. ncalls, w \in Workers : TaskDone(c, w)

\* The whole session, from the constructed plugin.
Spec == Init /\ [][Next]_vars

(***************************************************************************)
(* The publishing engine alone                                             *)
(***************************************************************************)
\* The entries add_result appends for two tests of the session: the test
\* marked C100 fails, the test marked C200 passes.
BufferEntries ==
    { add_result(<<>>, <<100>>, OutcomeStatus("failed"), <<"a", "\n", "b">>, 25)[1],
      add_result(<<>>, <<200>>, OutcomeStatus("passed"), Absent, 3)[1] }

\* Every buffer of at most n such entries.
RECURSIVE Buffers(_)
Buffers(n) ==
    IF n = 0 THEN { <<>> }
    ELSE Buffers(n - 1)
         \cup { Append(b, e) : b \in { x \in Buffers(n - 1) : Len(x) = n - 1 },
                               e \in BufferEntries }

\* A session whose configured run 50 was found open by the collection hook
\* and whose tests have all reported: pytest_sessionfinish is about to run.
EngineInit ==
    /\ cfg \in [ run_id : {50}, plan_id : {0}, publish_blocked : BOOLEAN,
                  skip_missing : {FALSE}, close_on_complete : {FALSE},
                  version : {<<"1", ".", "0">>} ]
    /\ testrun_id = 50
    /\ testplan_id = 0
    /\ results \in Buffers(MaxBatch)
    /\ phase = "running"
    /\ selected = "run"
    /\ http = << Request("get_run", 50, NoEntry, "open", Collecting, 0) >>
    /\ testruns = <<>>
    /\ open_runs = <<>>
    /\ plan_rows = <<>>
    /\ pub = IdleFrame
    /\ call_run = <<>>
    /\ queue = <<>>
    /\ unfinished = <<>>
    /\ worker = <<>>
    /\ dispatched = <<>>

EngineNext ==
    \/ SessionFinish
    \/ SessionClose
    \/ PublishBegin
    \/ PublishRaise
    \/ Put
    \/ Join
    \/ PublishReturn
    \/ \E c \in 1 .. ncalls, w \in Workers : Get(c, w)
    \/ \E c \in 1 .. ncalls, w \in Workers : PublishResult(c, w)
    \/ \E c \in 1 .. ncalls, w \in Workers : TaskDone(c, w)

EngineSpec == EngineInit /\ [][EngineNext]_vars

\* The threads are scheduled fairly and every request is answered or fails:
\* a step of the producer or of a worker that stays possible is taken.
Fairness ==
    /\ WF_vars(SessionFinish)
    /\ WF_vars(SessionClose)
    /\ WF_vars(PublishBegin \/ PublishRaise)
    /\ WF_vars(Put)
    /\ WF_vars(Join)
    /\ WF_vars(PublishReturn)
    /\ \A c \in 1 .. MaxCalls, w \in Workers :
          /\ WF_vars(c <= ncalls /\ Get(c, w))
          /\ WF_vars(c <= ncalls /\ PublishResult(c, w))
          /\ WF_vars(c <= ncalls /\ TaskDone(c, w))

FairEngineSpec == EngineSpec /\ Fairness

\* Reports of a session that runs under a rerun plugin: a test passes, or
\* its call phase is reported with the outcome "rerun".
PlanReports ==
    { [outcome |-> "passed", longrepr |-> Absent,   duration |-> 3],
      [outcome |-> "rerun",  longrepr |-> <<"s">>,  duration |-> 0] }

MakeReportInPlan ==
    \E ids \in Markers, rep \in PlanReports :
        pytest_runtest_makereport(ids, rep, MaxRecorded)

\* A session whose configured plan 9 was found open by the collection
\* hook: its tests report, then pytest_sessionfinish publishes to the open
\* runs of the plan and closes the plan.
PlanInit ==
    /\ cfg \in [ run_id : {0}, plan_id : {9}, publish_blocked : BOOLEAN,
                  skip_missing : {FALSE}, close_on_complete : {TRUE},
                  version : {Absent} ]
    /\ testrun_id = 0
    /\ testplan_id = 9
    /\ results = <<>>
    /\ phase = "running"
    /\ selected = "plan"
    /\ http = << Request("get_plan", 9, NoEntry, "open", Collecting, 0) >>
    /\ testruns = <<>>
    /\ open_runs = <<>>
    /\ plan_rows = <<>>
    /\ pub = IdleFrame
    /\ call_run = <<>>
    /\ queue = <<>>
    /\ unfinished = <<>>
    /\ worker = <<>>
    /\ dispatched = <<>>

PlanNext == MakeReportInPlan \/ EngineNext

PlanSpec == PlanInit /\ [][PlanNext]_vars

\* Every text of at most n characters over a letter and the newline.
RECURSIVE Texts(_)
Texts(n) ==
    IF n = 0 THEN { <<>> }
    ELSE Texts(n - 1)
         \cup { Append(t, ch) : t \in { x \in Texts(n - 1) : Len(x) = n - 1 },
                                ch \in {"a", "\n"} }

\* A session whose configured run 50 was found open and whose one marked
\* test has failed with any longrepr text and any duration:
\* pytest_sessionfinish is about to format and publish its result.
FormatInit ==
    /\ cfg \in [ run_id : {50}, plan_id : {0}, publish_blocked : BOOLEAN,
                  skip_missing : {FALSE}, close_on_complete : {FALSE},
                  version : {Absent} ]
    /\ testrun_id = 50
    /\ testplan_id = 0
    /\ \E text \in Texts(MaxText), duration \in 0 .. MaxTenths :
          results = add_result(<<>>, <<100>>, OutcomeStatus("failed"), text, duration)
    /\ phase = "running"
    /\ selected = "run"
    /\ http = << Request("get_run", 50, NoEntry, "open", Collecting, 0) >>
    /\ testruns = <<>>
    /\ open_runs = <<>>
    /\ plan_rows = <<>>
    /\ pub = IdleFrame
    /\ call_run = <<>>
    /\ queue = <<>>
    /\ unfinished = <<>>
    /\ worker = <<>>
    /\ dispatched = <<>>

FormatSpec == FormatInit /\ [][EngineNext]_vars

(***************************************************************************)
(* Vocabulary of the properties                                            *)
(***************************************************************************)
Last(seq) == seq[Len(seq)]

\* The add_result_for_case requests of publish_results call c, in the order
\* they were answered.
ResultRequests(c) ==
    SelectSeq(http, LAMBDA q : q.op = "add_result_for_case" /\ q.call = c)

\* How many elements of seq satisfy Test.
Count(seq, Test(_)) == Cardinality({ i \in DOMAIN seq : Test(seq[i]) })

\* The positions of the buffer the current call has to submit.
RetainedPositions == { i \in DOMAIN results : results[i].case_id \notin pub.blocked }

\* The current publish_results call has returned.
Returned == ncalls > 0 /\ pub.pc = "returned"

\* Some request of call c met a transport failure.
TransportFailedIn(c) == \E i \in DOMAIN http : http[i].call = c /\ http[i].resp = "fail"

\* The workers of call c that hold a result: sending it, or about to
\* acknowledge it.
Busy(c) == { w \in Workers : worker[c][w].pc \in {"send", "ack"} }

(***************************************************************************)
(* C1                                                                      *)
(***************************************************************************)
\* C1 (join barrier): when publish_results has returned, nothing of the call
\* is on its queue or held by a worker, the queue counts no unfinished task,
\* and every result it dispatched has been sent and answered: as many
\* requests of the call were answered as results were dispatched.
C1_JoinBarrier ==
    Returned =>
        LET reqs == ResultRequests(ncalls)
        IN  /\ queue[ncalls] = <<>>
            /\ Busy(ncalls) = {}
            /\ unfinished[ncalls] = 0
            /\ Len(reqs) = Len(dispatched[ncalls])
            /\ \A i \in DOMAIN dispatched[ncalls] :
                  /\ reqs[i].entry = dispatched[ncalls][i]
                  /\ reqs[i].resp \in {"ok", "error"}

\* publish_results has returned from a batch larger than the queue.
C1_Witness ==
    /\ Returned
    /\ Len(dispatched[ncalls]) > QueueCapacity
    /\ Len(ResultRequests(ncalls)) = Len(dispatched[ncalls])

(***************************************************************************)
(* C2                                                                      *)
(***************************************************************************)
\* C2 (remote-error isolation): whichever requests the service answers with
\* an error field, an error answer ends no worker thread and raises nothing
\* in publish_results (a thread is dead only after a transport failure, and
\* the hook never ends raised on an add_result_for_case answer with an error
\* field), and when the call returns each retained result, the ones after an
\* error answer included, was sent in exactly one request.
C2_RemoteErrorIsolation ==
    /\ \A c \in 1 .. ncalls, w \in Workers :
          worker[c][w].pc = "dead" => TransportFailedIn(c)
    /\ (phase = "raised" /\ http # <<>>) =>
          ~ (Last(http).op = "add_result_for_case" /\ Last(http).resp = "error")
    /\ Returned =>
          LET reqs == ResultRequests(ncalls)
          IN  /\ Len(reqs) = Cardinality(RetainedPositions)
              /\ \A i \in RetainedPositions :
                    LET e == process_result(results[i], cfg.version)
                    IN  Count(reqs, LAMBDA q : q.entry = e)
                        = Cardinality({ j \in RetainedPositions :
                                          process_result(results[j], cfg.version) = e })

\* A returned call whose first and third requests were answered with an
\* error field and whose second request was answered without.
C2_Witness ==
    /\ Returned
    /\ LET reqs == ResultRequests(ncalls)
       IN  /\ Len(reqs) >= 3
           /\ reqs[1].resp = "error"
           /\ reqs[2].resp = "ok"
           /\ reqs[3].resp = "error"

(***************************************************************************)
(* C3                                                                      *)
(***************************************************************************)
\* The transport raised in send_post for a result of call c.
SubmissionFailed(c) ==
    \E i \in DOMAIN http :
        /\ http[i].op = "add_result_for_case"
        /\ http[i].call = c
        /\ http[i].resp = "fail"

\* Every retained result of the current call has been sent.
AllRetainedSent ==
    \A i \in RetainedPositions :
        \E k \in DOMAIN ResultRequests(ncalls) :
            ResultRequests(ncalls)[k].entry = process_result(results[i], cfg.version)

\* C3 (transport-failure isolation): once the transport has failed for one
\* result of a publish_results call, that call still sends every other
\* retained result and returns.
C3_TransportFailureIsolation ==
    \A c \in 1 .. MaxCalls :
        (ncalls = c /\ SubmissionFailed(c))
            ~> (ncalls = c /\ pub.pc = "returned" /\ AllRetainedSent)

(***************************************************************************)
(* C4                                                                      *)
(***************************************************************************)
\* pytest_sessionfinish is at its (n+1)-th call of publish_results.
CallPending(n) ==
    /\ phase = "finishing"
    /\ NotPublishing
    /\ testruns # <<>>
    /\ ncalls = n

\* Every request so far was answered (no transport failure).
AllAnswered == \A i \in DOMAIN http : http[i].resp # "fail"

\* The (n+1)-th call ended in get_tests raising TestsNotFoundException on an
\* answer with an error field, before it created its queue.
TestsNotFound(n) ==
    /\ phase = "raised"
    /\ ncalls = n
    /\ ~ cfg.publish_blocked
    /\ Last(http).op = "get_tests"
    /\ Last(http).by = "publish_results"
    /\ Last(http).resp = "error"

\* C4 as stated (batch completion): a publish_results call that starts
\* returns, unless a transport call was not answered.
C4_AlwaysReturns ==
    \A n \in 0 .. MaxCalls - 1 :
        CallPending(n) ~> ((ncalls = n + 1 /\ pub.pc = "returned") \/ ~ AllAnswered)

\* C4 as amended: a publish_results call that starts returns or, with
\* publish_blocked off and an error answer to get_tests, raises
\* TestsNotFoundException before it dispatches anything, unless a transport
\* call was not answered; producer and workers never wait for each other
\* forever.
C4_ReturnsOrTestsNotFound ==
    \A n \in 0 .. MaxCalls - 1 :
        CallPending(n) ~>
            \/ ncalls = n + 1 /\ pub.pc = "returned"
            \/ TestsNotFound(n)
            \/ ~ AllAnswered

\* A call has returned from a buffer larger than the queue's capacity, all of
\* it sent and every request answered.
C4_Witness ==
    /\ Returned
    /\ AllAnswered
    /\ Len(results) > QueueCapacity
    /\ Len(ResultRequests(ncalls)) = Len(results)

(***************************************************************************)
(* C5                                                                      *)
(***************************************************************************)
\* a comes no later than b in the ordering key (case_id, then status_id).
KeyLeq(a, b) ==
    \/ a.case_id < b.case_id
    \/ a.case_id = b.case_id /\ a.status_id <= b.status_id

\* C5 (dispatch order): in every publish_results call, any two results put
\* on the queue one after the other are in the order of the key: case_id
\* does not decrease, and status_id does not decrease for equal case_id.
C5_DispatchSorted ==
    \A c \in 1 .. ncalls :
        \A i \in 1 .. Len(dispatched[c]) - 1 :
            KeyLeq(dispatched[c][i], dispatched[c][i + 1])

(***************************************************************************)
(* C6                                                                      *)
(***************************************************************************)
\* The case ids with status Blocked (2) in a get_tests answer.
BlockedCases(tests) ==
    { c \in Cases : \E i \in DOMAIN tests : tests[i].case_id = c /\ tests[i].status_id = 2 }

\* One of the requests reqs carries buffer entry i.
SentIn(reqs, i) ==
    \E k \in DOMAIN reqs : reqs[k].entry = process_result(results[i], cfg.version)

\* Some request of the current call carries buffer entry i.
Sent(i) == SentIn(ResultRequests(ncalls), i)

\* C6 (blocked filtering): with publish_blocked off, no result of a case
\* that get_tests reports as Blocked is dispatched or sent, and when the call
\* returns every other buffered result was sent; with publish_blocked on,
\* publish_results sends no get_tests request and when the call returns
\* every buffered result was sent.
C6_BlockedFiltering ==
    ncalls > 0 =>
        LET reqs == ResultRequests(ncalls)
            blocked == BlockedCases(pub.tests)
        IN  /\ ~ cfg.publish_blocked =>
                  /\ \A i \in DOMAIN dispatched[ncalls] :
                        dispatched[ncalls][i].case_id \notin blocked
                  /\ \A k \in DOMAIN reqs : reqs[k].entry.case_id \notin blocked
                  /\ Returned =>
                        \A i \in DOMAIN results :
                            results[i].case_id \notin blocked => SentIn(reqs, i)
            /\ cfg.publish_blocked =>
                  /\ \A i \in DOMAIN http :
                        ~ (http[i].op = "get_tests" /\ http[i].by = "publish_results")
                  /\ Returned => \A i \in DOMAIN results : SentIn(reqs, i)

\* A returned call, publish_blocked off, whose buffer held results of a
\* blocked case and results of another case, the latter sent.
C6_Witness ==
    /\ Returned
    /\ ~ cfg.publish_blocked
    /\ \E i, j \in DOMAIN results :
          /\ results[i].case_id \in BlockedCases(pub.tests)
          /\ results[j].case_id \notin BlockedCases(pub.tests)
          /\ Sent(j)
    /\ Len(ResultRequests(ncalls)) < Len(results)

(***************************************************************************)
(* C7                                                                      *)
(***************************************************************************)
\* How many of the requests reqs carry entry e.
RequestsOf(reqs, e) == Count(reqs, LAMBDA q : q.entry = e)

\* What the buffer's entries are submitted as, position by position.
Processed == <<>> \o [ i \in 1 .. Len(results) |-> process_result(results[i], cfg.version) ]

\* How many retained positions of the buffer, submitted as ents, give entry e.
RetainedOf(ents, e) == Cardinality({ i \in RetainedPositions : ents[i] = e })

\* C7 (no deduplication, no duplication): a call never sends more requests
\* for an entry than the buffer retains copies of it, sends nothing the
\* buffer does not hold, and when it returns it has sent exactly one request
\* per retained entry: two entries of one case id give two requests.
C7_OneRequestPerEntry ==
    ncalls > 0 =>
        LET reqs == ResultRequests(ncalls)
            ents == Processed
        IN  /\ \A k \in DOMAIN reqs :
                  /\ RetainedOf(ents, reqs[k].entry) > 0
                  /\ RequestsOf(reqs, reqs[k].entry) <= RetainedOf(ents, reqs[k].entry)
            /\ Returned =>
                  \A i \in RetainedPositions :
                      RequestsOf(reqs, ents[i]) = RetainedOf(ents, ents[i])

\* A returned call that sent two requests for a case recorded twice.
C7_Witness ==
    /\ Returned
    /\ \E i, j \in RetainedPositions :
          /\ i # j
          /\ results[i].case_id = results[j].case_id
          /\ Count(ResultRequests(ncalls),
                   LAMBDA q : q.entry.case_id = results[i].case_id) = 2

(***************************************************************************)
(* C8, C9, C10                                                             *)
(***************************************************************************)
\* The collection hook was answered that the configured plan is open.
PlanFoundOpen ==
    /\ cfg.plan_id # 0
    /\ \E i \in DOMAIN http :
          /\ http[i].op = "get_plan"
          /\ http[i].by = Collecting
          /\ http[i].id = cfg.plan_id
          /\ http[i].resp = "open"

\* The collection hook was answered that the configured run is open.
RunFoundOpen ==
    /\ cfg.run_id # 0
    /\ \E i \in DOMAIN http :
          /\ http[i].op = "get_run"
          /\ http[i].by = Collecting
          /\ http[i].id = cfg.run_id
          /\ http[i].resp = "open"

AddRunRequests == SelectSeq(http, LAMBDA q : q.op = "add_run")

\* The collection hook has resolved the target (no probe and no add_run
\* ended in a transport failure).
Resolved == selected # "pending"

\* C8 (target precedence): after the collection hook, an open configured
\* plan is the target and the run id is 0, whatever run is configured; else
\* an open configured run is the target and the plan id is 0; in both cases
\* no add_run request was sent; else exactly one add_run request was sent
\* and, when it succeeded, the id it returned is the run id.
C8_TargetPrecedence ==
    Resolved =>
        IF PlanFoundOpen
        THEN /\ testplan_id = cfg.plan_id
             /\ testrun_id = 0
             /\ AddRunRequests = <<>>
        ELSE IF RunFoundOpen
        THEN /\ testrun_id = cfg.run_id
             /\ testplan_id = 0
             /\ AddRunRequests = <<>>
        ELSE /\ Len(AddRunRequests) = 1
             /\ AddRunRequests[1].resp = "ok" => testrun_id = NewRunId

\* The plan was selected although an open run was configured too, and the
\* session has gone on to publish to a run of the plan.
C8_Witness ==
    /\ Resolved
    /\ PlanFoundOpen
    /\ cfg.run_id # 0
    /\ testrun_id = 0
    /\ testplan_id = cfg.plan_id
    /\ AddRunRequests = <<>>
    /\ ncalls > 0

\* C9 (single authoritative target): once the collection hook has resolved
\* the target, at most one of self.testrun_id and self.testplan_id is not 0,
\* until the session ends.
C9_SingleTarget == Resolved => ~ (testrun_id # 0 /\ testplan_id # 0)

\* The runs pytest_sessionfinish may publish to.
RECURSIVE Elements(_)
Elements(seq) == IF seq = <<>> THEN {} ELSE {Head(seq)} \cup Elements(Tail(seq))

\* C10 (session-end targeting): every add_result_for_case request goes to the
\* run found open at collection, to the run this session created, or to a
\* run get_available_testruns reported open under the plan found open; when
\* collection ended with none of them, no such request is sent.
C10_SessionEndTargets ==
    \A i \in DOMAIN http :
        http[i].op = "add_result_for_case" =>
            \/ PlanFoundOpen /\ http[i].id \in Elements(open_runs)
            \/ ~ PlanFoundOpen /\ RunFoundOpen /\ http[i].id = cfg.run_id
            \/ /\ ~ PlanFoundOpen
               /\ ~ RunFoundOpen
               /\ AddRunRequests # <<>>
               /\ Last(AddRunRequests).resp = "ok"
               /\ http[i].id = NewRunId

(***************************************************************************)
(* C11                                                                     *)
(***************************************************************************)
\* pytest_sessionfinish has ended, by returning or by an exception.
SessionOver ==
    \/ phase = "finished"
    \/ phase = "raised" /\ http # <<>> /\ Last(http).by # Collecting

\* publish_results was called for run (it sent its get_tests query or
\* created its queue).
PublishAttempted(run) ==
    \/ \E c \in 1 .. ncalls : call_run[c] = run
    \/ \E i \in DOMAIN http :
          /\ http[i].op = "get_tests"
          /\ http[i].by = "publish_results"
          /\ http[i].id = run

\* C11 (plan fan-out independence): when the plan was selected and every
\* request was answered (with or without an error field), a session that
\* has ended with results to publish has called publish_results for every
\* run get_available_testruns reported open, whatever the service answered
\* while an earlier run was published.
C11_PlanFanOut ==
    (SessionOver /\ PlanFoundOpen /\ results # <<>> /\ AllAnswered) =>
        \A i \in DOMAIN open_runs : PublishAttempted(open_runs[i])

(***************************************************************************)
(* C12                                                                     *)
(***************************************************************************)
\* The requests that close the run r / the plan p.
CloseRunRequests(r) == SelectSeq(http, LAMBDA q : q.op = "close_run" /\ q.id = r)
ClosePlanRequests(p) == SelectSeq(http, LAMBDA q : q.op = "close_plan" /\ q.id = p)

\* A run was created by this session.
RunCreated == AddRunRequests # <<>> /\ Last(AddRunRequests).resp = "ok"

\* C12 (close on complete): with close_on_complete set, a session that has
\* ended with every request answered has sent exactly one close request for
\* its target: close_plan for the plan found open, else close_run for the
\* run found open or created; and an error answer to it has not raised.
C12_CloseOnComplete ==
    (SessionOver /\ cfg.close_on_complete /\ AllAnswered) =>
        /\ PlanFoundOpen => Len(ClosePlanRequests(cfg.plan_id)) = 1
        /\ (~ PlanFoundOpen /\ RunFoundOpen) => Len(CloseRunRequests(cfg.run_id)) = 1
        /\ (~ PlanFoundOpen /\ ~ RunFoundOpen /\ RunCreated) =>
              Len(CloseRunRequests(NewRunId)) = 1
        /\ (http # <<>> /\ Last(http).op \in {"close_run", "close_plan"}) =>
              phase = "finished"

(***************************************************************************)
(* C13                                                                     *)
(***************************************************************************)
\* C13 (outcome mapping): passed, failed and skipped map to the statuses
\* passed (1), failed (5) and blocked (2), and no entry of the buffer
\* carries another status (a report with any other outcome appends nothing
\* with a default or empty status).
C13_OutcomeMapping ==
    /\ OutcomeStatus("passed") = test_status.passed
    /\ OutcomeStatus("failed") = test_status.failed
    /\ OutcomeStatus("skipped") = test_status.blocked
    /\ \A i \in DOMAIN results :
          results[i].status_id \in
              { test_status.passed, test_status.failed, test_status.blocked }

(***************************************************************************)
(* C14                                                                     *)
(***************************************************************************)
\* The add_result_for_case requests of the session.
AllResultRequests == SelectSeq(http, LAMBDA q : q.op = "add_result_for_case")

\* The integers nearest to tenths / 10; of two equally near, the even one.
Nearest(tenths) ==
    CHOOSE n \in 0 .. tenths :
        \/ 10 * n - tenths < 5 /\ tenths - 10 * n < 5
        \/ (10 * n - tenths = 5 \/ tenths - 10 * n = 5) /\ n % 2 = 0

\* The number a string of digits followed by "s" denotes.
RECURSIVE Seconds(_)
Seconds(str) ==
    IF Len(str) <= 1 THEN 0
    ELSE LET digits == SubSeq(str, 1, Len(str) - 1)
             units  == CHOOSE d \in 0 .. 9 : Digit(d) = Last(digits)
         IN  10 * Seconds(SubSeq(digits, 1, Len(digits) - 1) \o <<"s">>) + units

\* elapsed is the field the claim gives for a duration of tenths / 10 s.
ElapsedAsStated(tenths, elapsed) ==
    /\ tenths = 0 => elapsed = Absent
    /\ (0 < tenths /\ tenths < 10) => elapsed = <<"1", "s">>
    /\ tenths >= 10 =>
          /\ elapsed # Absent
          /\ Last(elapsed) = "s"
          /\ Head(elapsed) # "0"
          /\ Seconds(elapsed) = Nearest(tenths)
    /\ elapsed # <<"0", "s">>

\* C14 (elapsed field): every submitted result of a recorded outcome of
\* duration d has no elapsed field when d = 0, elapsed "1s" when 0 < d < 1
\* and "<round(d)>s" when d >= 1 (round as Python rounds, ties to even);
\* it is never "0s".
C14_ElapsedField ==
    LET reqs == AllResultRequests
    IN  \A k \in DOMAIN reqs :
            \E i \in DOMAIN results :
                /\ results[i].case_id = reqs[k].entry.case_id
                /\ ElapsedAsStated(results[i].duration, reqs[k].entry.elapsed)

\* Results were submitted for a duration under one second, and for a
\* duration half way between two whole seconds.
C14_Witness ==
    /\ AllResultRequests # <<>>
    /\ Len(results) = 1
    /\ \/ results[1].duration \in 1 .. 4
       \/ results[1].duration >= 10 /\ results[1].duration % 10 = 5

(***************************************************************************)
(* C15                                                                     *)
(***************************************************************************)
\* The lines of a text: the pieces between its newlines.
RECURSIVE SplitLines(_)
SplitLines(text) ==
    IF \A i \in DOMAIN text : text[i] # "\n" THEN << text >>
    ELSE LET nl == Min({ i \in DOMAIN text : text[i] = "\n" })
         IN  << SubSeq(text, 1, nl - 1) >> \o SplitLines(SubSeq(text, nl + 1, Len(text)))

\* Every line prefixed by four spaces, the lines joined by newlines again.
RECURSIVE PrefixedLines(_)
PrefixedLines(lines) ==
    <<"    ">> \o Head(lines)
    \o (IF Len(lines) = 1 THEN <<>> ELSE <<"\n">> \o PrefixedLines(Tail(lines)))

\* The comment field the claim gives for a text and the maximum size m.
CommentAsStated(text, m) ==
    IF text = <<>> THEN Absent
    ELSE LET kept == IF Len(text) <= m THEN Len(text) ELSE m
             tail == [ i \in 1 .. kept |-> text[Len(text) - kept + i] ]
         IN  <<"# Pytest result: #", "\n">>
             \o (IF Len(text) > m THEN <<"Log truncated", "\n", "...", "\n">> ELSE <<>>)
             \o PrefixedLines(SplitLines(tail))

\* C15 (comment formatting): the comment of every submitted result is the
\* header line, then the truncation notice exactly when the text is longer
\* than max_comment_size, then the last max_comment_size characters of the
\* text (the whole text when it is not longer) with every line prefixed by
\* four spaces; an empty text gives no comment field.
C15_CommentFormatting ==
    LET reqs == AllResultRequests
    IN  \A k \in DOMAIN reqs :
            \E i \in DOMAIN results :
                /\ results[i].case_id = reqs[k].entry.case_id
                /\ reqs[k].entry.comment =
                       CommentAsStated(results[i].comment, max_comment_size)

\* A result was submitted whose text is longer than max_comment_size,
\* starts with a letter and has a newline among the characters kept.
C15_Witness ==
    /\ AllResultRequests # <<>>
    /\ Len(results) = 1
    /\ Len(results[1].comment) > max_comment_size
    /\ \E i \in DOMAIN results[1].comment :
          /\ i > Len(results[1].comment) - max_comment_size
          /\ results[1].comment[i] = "\n"
    /\ results[1].comment[1] = "a"

(***************************************************************************)
(* C16                                                                     *)
(***************************************************************************)
\* This step appends to the buffer one entry per id of ids, in their order,
\* each with the status of the report's outcome, its longrepr and its
\* duration, and leaves the entries already recorded as they were.
AppendsFor(ids, rep) ==
    /\ Len(results') = Len(results) + Len(ids)
    /\ \A i \in DOMAIN results : results'[i] = results[i]
    /\ \A k \in DOMAIN ids :
          results'[Len(results) + k] =
              [ case_id |-> ids[k].num, status_id |-> OutcomeStatus(rep.outcome),
                comment |-> rep.longrepr, duration |-> rep.duration ]

\* The buffer changes only by such an append while the tests run: no step
\* of pytest_sessionfinish or publish_results changes it.
AppendOnly ==
    results' # results =>
        /\ phase = "running"
        /\ \E ids \in Markers, rep \in PlanReports : AppendsFor(ids, rep)

\* publish_results call c has ended by returning.
Completed(c) == c < ncalls \/ (c = ncalls /\ Returned)

\* The entries submitted by call c, as a set.
Submitted(c) ==
    LET reqs == ResultRequests(c)
    IN  { reqs[k].entry : k \in DOMAIN reqs }

InFlight(c) == { w \in Workers : worker[c][w].pc = "send" }

\* C17 (bounded pool and queue): in every state the queue of a
\* publish_results call holds at most 2 * max_concurrent_requests results
\* and at most max_concurrent_requests submissions are in flight; a result
\* is only ever enqueued into a queue that is not full.
C17_BoundedPoolAndQueue ==
    /\ [](\A c \in 1 .. ncalls :
             /\ Len(queue[c]) <= 2 * max_concurrent_requests
             /\ Cardinality(InFlight(c)) <= max_concurrent_requests)
    /\ [][\A c \in 1 .. ncalls :
              Len(queue'[c]) > Len(queue[c]) =>
                  Len(queue[c]) < 2 * max_concurrent_requests]_vars

\* A submission is in flight in a call that has already dispatched more
\* results than it has workers.
C17_Witness ==
    /\ ncalls = 1
    /\ InFlight(1) # {}
    /\ Len(dispatched[1]) > max_concurrent_requests

(***************************************************************************)
(* C18                                                                     *)
(***************************************************************************)
\* C18 (serialised submission): in every call at most one result is on the
\* queue or held by a worker; a result is dispatched only when every result
\* dispatched before it has its request answered; and the requests are
\* answered in the order the results were dispatched, whatever the number
\* of workers.
C18_SerialisedSubmission ==
    \A c \in 1 .. ncalls :
        LET reqs == ResultRequests(c)
        IN  /\ Len(queue[c]) + Cardinality(Busy(c)) <= 1
            /\ unfinished[c] <= 1
            /\ Len(reqs) <= Len(dispatched[c])
            /\ Len(dispatched[c]) <= Len(reqs) + 1
            /\ \A k \in DOMAIN reqs : reqs[k].entry = dispatched[c][k]

\* Two different results were submitted and a worker holds a third.
C18_Witness ==
    /\ ncalls = 1
    /\ Busy(1) # {}
    /\ LET reqs == ResultRequests(1)
       IN  /\ Len(reqs) >= 2
           /\ reqs[1].entry # reqs[2].entry

(***************************************************************************)
(* C19                                                                     *)
(***************************************************************************)
\* C19 (pool isolation across publish calls): every call has a queue and
\* max_concurrent_requests workers of its own; once a call has returned,
\* its queue stays empty and all its workers stay alive, waiting on it;
\* every add_result_for_case request was sent by a worker of the call that
\* dispatched its result and carries the run id of that call.
C19_PoolIsolation ==
    /\ Len(queue) = ncalls
    /\ Len(worker) = ncalls
    /\ \A c \in 1 .. ncalls :
          LET reqs == ResultRequests(c)
          IN  /\ Cardinality(DOMAIN worker[c]) = max_concurrent_requests
              /\ Completed(c) =>
                    /\ queue[c] = <<>>
                    /\ \A w \in DOMAIN worker[c] : worker[c][w].pc = "get"
              /\ Len(reqs) <= Len(dispatched[c])
              /\ \A k \in DOMAIN reqs :
                    /\ reqs[k].id = call_run[c]
                    /\ reqs[k].entry = dispatched[c][k]

\* The second run of the plan is being published, a worker of the second
\* call holds a result, and the first call had submitted results too.
C19_Witness ==
    /\ ncalls = 2
    /\ call_run[1] # call_run[2]
    /\ ResultRequests(1) # <<>>
    /\ ResultRequests(2) # <<>>
    /\ Busy(2) # {}

(***************************************************************************)
(* C20                                                                     *)
(***************************************************************************)
\* Request i is an availability query of the collection hook that was
\* answered with an error field.
ProbeError(i, op) ==
    /\ http[i].op = op
    /\ http[i].by = Collecting
    /\ http[i].resp = "error"

\* The answer get_available_testruns received, if it was called.
PlanFetches == SelectSeq(http, LAMBDA q : q.by = "get_available_testruns")

\* The ids of the rows that are not completed.
OpenRowIds == { plan_rows[i].id : i \in { j \in DOMAIN plan_rows : ~ plan_rows[j].is_completed } }

\* C20 (resolver fails closed): an error answer to get_plan or get_run at
\* collection does not end the hook and does not select that plan or run:
\* the hook goes on to the next rule (the get_run query or add_run).
\* get_available_testruns returns exactly the ids of the rows whose
\* is_completed is false, each once and in the order of the answer, and on
\* an error answer it returns no run, so that no result is submitted.
C20_ResolverFailsClosed ==
    /\ \A i \in DOMAIN http :
          /\ ProbeError(i, "get_plan") =>
                /\ selected # "plan"
                /\ i < Len(http)
                /\ http[i + 1].op \in {"get_run", "add_run"}
          /\ ProbeError(i, "get_run") =>
                /\ selected # "run"
                /\ i < Len(http)
                /\ http[i + 1].op = "add_run"
    /\ \A k \in DOMAIN PlanFetches :
          /\ PlanFetches[k].resp = "ok" =>
                /\ Elements(open_runs) = OpenRowIds
                /\ Len(open_runs) = Cardinality(OpenRowIds)
                /\ \A i, j \in DOMAIN plan_rows :
                      (i < j /\ ~ plan_rows[i].is_completed /\ ~ plan_rows[j].is_completed) =>
                          \E a, b \in DOMAIN open_runs :
                              /\ a < b
                              /\ open_runs[a] = plan_rows[i].id
                              /\ open_runs[b] = plan_rows[j].id
          /\ PlanFetches[k].resp = "error" =>
                /\ open_runs = <<>>
                /\ ncalls = 0
                /\ AllResultRequests = <<>>

\* The plan query of the collection hook was answered with an error, the
\* run was found open instead and the session has published to it.
C20_Witness ==
    /\ http # <<>>
    /\ ProbeError(1, "get_plan")
    /\ selected = "run"
    /\ AllResultRequests # <<>>

====
